---- MODULE Spec2Model ----
(***************************************************************************)
(* Movie watchlist manager (src/Main.c): a heap of singly-linked Movie     *)
(* nodes, the two list heads library and watchlist, and the menu handlers  *)
(* that move movies between them.                                          *)
(*                                                                         *)
(* Two specifications share the state:                                     *)
(*   Spec     - the program: the state after loadMovieLibrary, then the    *)
(*              watchlist-menu and library-menu handlers.                  *)
(*   SpecList - the list operations (insertMovie, appendMovie,             *)
(*              removeMovie, ...) applied to one list, held in watchlist,  *)
(*              with the node they take or return held in pending.         *)
(* Durations are integer hundredths of an hour.                            *)
(***************************************************************************)
EXTENDS Integers, Sequences, FiniteSets, TLC

VARIABLES
  heap,       \* node -> Movie (title, genre, duration, next)
  allocated,  \* the nodes calloc has returned and free has not taken back
  library,    \* main's library: head node or NULL
  watchlist,  \* main's watchlist: head node or NULL
  pending,    \* a node held by a caller's local variable, or NULL
  pc,         \* where the program is: "menu", "promptForInt", "list", "crashed", "hung"
  last,       \* history: the last handler or list operation that ran
  loaded,     \* history: the sequence of movies the run started with
  enomem,     \* history: some createMovieNode has returned NULL
  calls,      \* the number of list operations (SpecList) or of saves and loads
              \* (SpecMenu, SpecFile) applied so far
  disk        \* the text files: for each name whether it exists and its text

vars == <<heap, allocated, library, watchlist, pending, pc, last, loaded, enomem,
          calls, disk>>

(***************************************************************************)
(* Bounds.                                                                 *)
(***************************************************************************)
\* number of node identities the heap can hand out
MaxNodes == 6
\* longest initial list (SpecList)
MaxLen == 3
\* number of list operations one run of SpecList applies
MaxCalls == 2

(***************************************************************************)
(* Program constants.                                                      *)
(***************************************************************************)
NULL == 0
\* errno of an fopen that finds no file
ENOENT == 2
ENOMEM == 12
EINVAL == 22
ERANGE == 34
\* _countof(movie->title) - 1
MaxStrLen == 34
\* _countof(line)
LineSize == 100

AddToBeginning == 1
AddToEnd == 2
InsertWithin == 3

Nodes == 1..MaxNodes

\* the movies a library file may hold; two of them share the title "Alien"
Catalog ==
  { [title |-> "Alien", genre |-> "Sci-Fi",    duration |-> 150],
    [title |-> "Up",    genre |-> "Animation", duration |-> 160],
    [title |-> "Heat",  genre |-> "Crime",     duration |-> 285],
    [title |-> "Alien", genre |-> "Horror",    duration |-> 90] }

\* what the user can type at a title prompt
Titles == {m.title : m \in Catalog}

\* a zeroed Movie, as calloc returns it
ZeroMovie == [title |-> "", genre |-> "", duration |-> 0, next |-> NULL]

\* what a build can do when the code reads through a null pointer:
\* the process is killed, or the read yields zero
UBOutcomes == {"crash", "zero"}

\* the outcomes of one call: one of UBOutcomes if it read through NULL
Outcomes(fault) == IF fault THEN UBOutcomes ELSE {"none"}

(***************************************************************************)
(* Reading a list off the heap.                                            *)
(***************************************************************************)
\* the nodes reached from list by next links, in order (at most fuel of them)
RECURSIVE Walk(_, _, _)
Walk(h, list, fuel) ==
  IF list = NULL \/ fuel = 0 THEN <<>>
  ELSE <<list>> \o Walk(h, h[list].next, fuel - 1)

ListNodes(h, list) == Walk(h, list, MaxNodes + 1)

\* the value of a node, without its link
MovieData(h, n) ==
  [title |-> h[n].title, genre |-> h[n].genre, duration |-> h[n].duration]

\* the list as a sequence of (title, genre, duration)
MovieSeq(h, list) ==
  LET ns == ListNodes(h, list) IN [i \in 1..Len(ns) |-> MovieData(h, ns[i])]

\* the chain from list ends in NULL without visiting a node twice
Acyclic(h, list) == Len(ListNodes(h, list)) <= MaxNodes

(***************************************************************************)
(* createMovieNode                                                         *)
(***************************************************************************)
\* calloc: the lowest unused node, or NULL when the allocation fails
calloc(alloc, ok) ==
  IF ok /\ Nodes \ alloc # {}
  THEN CHOOSE n \in Nodes \ alloc : \A k \in Nodes \ alloc : n <= k
  ELSE NULL

createMovieNode(h, alloc, title, genre, duration, ok) ==
  IF Len(title) > MaxStrLen \/ Len(genre) > MaxStrLen
  THEN [heap |-> h, allocated |-> alloc, movie |-> NULL, errno |-> ERANGE]
  ELSE LET movie == calloc(alloc, ok) IN
       IF movie = NULL
       THEN [heap |-> h, allocated |-> alloc, movie |-> NULL, errno |-> ENOMEM]
       ELSE [heap |-> [h EXCEPT ![movie] = [title |-> title, genre |-> genre,
                                            duration |-> duration, next |-> NULL]],
             allocated |-> alloc \cup {movie},
             movie |-> movie,
             errno |-> 0]

(***************************************************************************)
(* getCount                                                                *)
(***************************************************************************)
RECURSIVE getCountLoop(_, _, _)
getCountLoop(h, list, count) ==
  IF h[list].next # NULL THEN getCountLoop(h, h[list].next, count + 1)
  ELSE count

getCount(h, list) == IF list # NULL THEN getCountLoop(h, list, 1) ELSE 0

(***************************************************************************)
(* insertMovie                                                             *)
(* Result: the heap, the list head, the status, and fault = the loop read  *)
(* itr->next with itr = NULL; the status is then the one of a build where  *)
(* that read yields zero, and the caller draws the outcome.                *)
(***************************************************************************)
RECURSIVE insertMovieLoop(_, _, _, _, _, _, _)
insertMovieLoop(h, list, movie, position, prev_, itr, count) ==
  IF count = position
  THEN LET h1 == IF prev_ # NULL THEN [h EXCEPT ![prev_].next = movie] ELSE h
           h2 == [h1 EXCEPT ![movie].next = itr]
       IN [heap |-> h2, list |-> IF position = 0 THEN movie ELSE list,
           status |-> 0, fault |-> FALSE]
  ELSE IF itr = NULL
  THEN [heap |-> h, list |-> list, status |-> ERANGE, fault |-> TRUE]
  ELSE IF h[itr].next = NULL
  THEN [heap |-> h, list |-> list, status |-> ERANGE, fault |-> FALSE]
  ELSE insertMovieLoop(h, list, movie, position, itr, h[itr].next, count + 1)

\* an insertion that forgets to link the new node to the rest of the list
insertMovieDropsTail(h, list, movie, position) ==
  IF movie = NULL
  THEN [heap |-> h, list |-> list, status |-> EINVAL, fault |-> FALSE]
  ELSE LET r == insertMovieLoop(h, list, movie, position, NULL, list, 0)
       IN IF r.status = 0
          THEN [r EXCEPT !.heap = [r.heap EXCEPT ![movie].next = NULL]]
          ELSE r

insertMovie(h, list, movie, position) ==
  IF movie = NULL
  THEN [heap |-> h, list |-> list, status |-> EINVAL, fault |-> FALSE]
  ELSE insertMovieLoop(h, list, movie, position, NULL, list, 0)

(***************************************************************************)
(* appendMovie                                                             *)
(***************************************************************************)
RECURSIVE appendMovieTail(_, _)
appendMovieTail(h, head) ==
  IF h[head].next # NULL THEN appendMovieTail(h, h[head].next) ELSE head

\* an append that links the new tail back to the head
appendMovieCircular(h, list, movie) ==
  IF movie = NULL
  THEN [heap |-> h, list |-> list, status |-> EINVAL]
  ELSE IF list = NULL
  THEN [heap |-> [h EXCEPT ![movie].next = movie], list |-> movie, status |-> 0]
  ELSE LET tail == appendMovieTail(h, list)
           h1 == [h EXCEPT ![tail].next = movie]
       IN [heap |-> [h1 EXCEPT ![movie].next = list], list |-> list, status |-> 0]

appendMovie(h, list, movie) ==
  IF movie = NULL
  THEN [heap |-> h, list |-> list, status |-> EINVAL]
  ELSE IF list = NULL
  THEN [heap |-> [h EXCEPT ![movie].next = NULL], list |-> movie, status |-> 0]
  ELSE LET tail == appendMovieTail(h, list)
           h1 == [h EXCEPT ![tail].next = movie]
       IN [heap |-> [h1 EXCEPT ![movie].next = NULL], list |-> list, status |-> 0]

(***************************************************************************)
(* removeMovie                                                             *)
(* Result: the heap, the list head, the removed node (NULL on error), and  *)
(* fault = the loop read itr->next with itr = NULL.                        *)
(***************************************************************************)
RECURSIVE removeMovieLoop(_, _, _, _, _)
removeMovieLoop(h, list, movie, prev_, itr) ==
  IF itr = movie
  THEN LET h1 == [h EXCEPT ![prev_].next = h[itr].next]
       IN [heap |-> [h1 EXCEPT ![itr].next = NULL], list |-> list,
           removed |-> itr, status |-> 0, fault |-> FALSE]
  ELSE IF itr = NULL
  THEN [heap |-> h, list |-> list, removed |-> NULL, status |-> EINVAL, fault |-> TRUE]
  ELSE IF h[itr].next = NULL
  THEN [heap |-> h, list |-> list, removed |-> NULL, status |-> EINVAL, fault |-> FALSE]
  ELSE removeMovieLoop(h, list, movie, itr, h[itr].next)

removeMovie(h, list, movie) ==
  IF list = NULL \/ movie = NULL
  THEN [heap |-> h, list |-> list, removed |-> NULL, status |-> EINVAL, fault |-> FALSE]
  ELSE IF movie = list
  THEN [heap |-> h, list |-> h[movie].next, removed |-> movie,
        status |-> 0, fault |-> FALSE]
  ELSE removeMovieLoop(h, list, movie, list, h[list].next)

(***************************************************************************)
(* deleteMovie                                                             *)
(* Result: the heap, the list head, the freed node (NULL on error), the    *)
(* status (0 or -1), and fault = the loop read itr->next with itr = NULL.  *)
(***************************************************************************)
RECURSIVE deleteMovieLoop(_, _, _, _, _)
deleteMovieLoop(h, list, movie, prev_, itr) ==
  IF itr = movie
  THEN LET h1 == [h EXCEPT ![prev_].next = h[itr].next]
       IN [heap |-> [h1 EXCEPT ![itr].next = NULL], list |-> list,
           freed |-> itr, status |-> 0, fault |-> FALSE]
  ELSE IF itr = NULL
  THEN [heap |-> h, list |-> list, freed |-> NULL, status |-> -1, fault |-> TRUE]
  ELSE IF h[itr].next = NULL
  THEN [heap |-> h, list |-> list, freed |-> NULL, status |-> -1, fault |-> FALSE]
  ELSE deleteMovieLoop(h, list, movie, itr, h[itr].next)

deleteMovie(h, list, movie) ==
  IF list = NULL \/ movie = NULL
  THEN [heap |-> h, list |-> list, freed |-> NULL, status |-> -1, fault |-> FALSE]
  ELSE IF movie = list
  THEN [heap |-> h, list |-> h[movie].next, freed |-> movie,
        status |-> 0, fault |-> FALSE]
  ELSE deleteMovieLoop(h, list, movie, list, h[list].next)

(***************************************************************************)
(* computeDuration                                                         *)
(***************************************************************************)
RECURSIVE computeDurationLoop(_, _, _)
computeDurationLoop(h, itr, duration) ==
  LET d == duration + h[itr].duration IN
  IF h[itr].next = NULL THEN d ELSE computeDurationLoop(h, h[itr].next, d)

computeDuration(h, list) ==
  IF list = NULL THEN 0 ELSE computeDurationLoop(h, list, 0)

(***************************************************************************)
(* searchByTitle                                                           *)
(***************************************************************************)
RECURSIVE searchByTitleLoop(_, _, _)
searchByTitleLoop(h, itr, title) ==
  IF h[itr].title = title THEN itr
  ELSE IF h[itr].next = NULL THEN NULL
  ELSE searchByTitleLoop(h, h[itr].next, title)

\* a search that keeps the last match instead of stopping at the first
RECURSIVE searchByTitleLastLoop(_, _, _, _)
searchByTitleLastLoop(h, itr, title, match) ==
  LET m == IF h[itr].title = title THEN itr ELSE match IN
  IF h[itr].next = NULL THEN m ELSE searchByTitleLastLoop(h, h[itr].next, title, m)

searchByTitleLast(h, list, title) ==
  IF list = NULL THEN NULL ELSE searchByTitleLastLoop(h, list, title, NULL)

searchByTitle(h, list, title) ==
  IF list = NULL THEN NULL ELSE searchByTitleLoop(h, list, title)

(***************************************************************************)
(* getNodePosition: index is set to 0 and never advanced in the loop       *)
(***************************************************************************)
RECURSIVE getNodePositionLoop(_, _, _, _)
getNodePositionLoop(h, itr, title, index) ==
  IF h[itr].title = title THEN index
  ELSE IF h[itr].next = NULL THEN -1
  ELSE getNodePositionLoop(h, h[itr].next, title, index)

getNodePosition(h, list, title) ==
  IF list = NULL THEN -1 ELSE getNodePositionLoop(h, list, title, 0)

(***************************************************************************)
(* Text files.  A file is the string of its characters; a duration is an   *)
(* integer number of hundredths, written by "%.2f" and read by strtod.     *)
(***************************************************************************)
\* the character of a decimal digit
Digit(k) == SubSeq("0123456789", k + 1, k + 1)

IsDigit(c) == \E k \in 0..9 : Digit(k) = c

DigitVal(c) == CHOOSE k \in 0..9 : Digit(k) = c

\* printf("%d") of a natural number
RECURSIVE NatToStr(_)
NatToStr(n) == IF n < 10 THEN Digit(n) ELSE NatToStr(n \div 10) \o Digit(n % 10)

\* printf("%.2f") of a duration
FormatDuration(d) ==
  NatToStr(d \div 100) \o "." \o Digit((d \div 10) % 10) \o Digit(d % 10)

\* the leading decimal digits of s as [value, digits, rest]
RECURSIVE ScanDigits(_, _, _)
ScanDigits(s, value, digits) ==
  IF s # "" /\ IsDigit(Head(s))
  THEN ScanDigits(Tail(s), 10 * value + DigitVal(Head(s)), digits + 1)
  ELSE [value |-> value, digits |-> digits, rest |-> s]

\* s without its leading white space
RECURSIVE SkipSpace(_)
SkipSpace(s) ==
  IF s # "" /\ Head(s) \in {" ", "\n", "\t"} THEN SkipSpace(Tail(s)) ELSE s

\* strtod(line, NULL) in hundredths: white space, digits, and after a point
\* the first two fractional digits; 0 when no number starts the text
strtod(line) ==
  LET int == ScanDigits(SkipSpace(line), 0, 0)
      frac == IF int.rest # "" /\ Head(int.rest) = "."
              THEN ScanDigits(Tail(int.rest), 0, 0)
              ELSE [value |-> 0, digits |-> 0, rest |-> int.rest]
      first == IF frac.digits = 0 THEN "00"
               ELSE IF frac.digits = 1 THEN SubSeq(Tail(int.rest), 1, 1) \o "0"
               ELSE SubSeq(Tail(int.rest), 1, 2)
  IN IF int.digits = 0 /\ frac.digits = 0 THEN 0
     ELSE 100 * int.value + ScanDigits(first, 0, 0).value

\* fgets(buffer, size, stream): at most size - 1 characters, up to and with a
\* newline; at end of file with nothing read the buffer is kept (read = FALSE)
RECURSIVE fgetsLoop(_, _, _)
fgetsLoop(rest, room, buffer) ==
  IF room = 0 THEN [buffer |-> buffer, rest |-> rest, eof |-> FALSE, read |-> TRUE]
  ELSE IF rest = ""
  THEN [buffer |-> buffer, rest |-> rest, eof |-> TRUE, read |-> buffer # ""]
  ELSE IF Head(rest) = "\n"
  THEN [buffer |-> buffer \o "\n", rest |-> Tail(rest), eof |-> FALSE, read |-> TRUE]
  ELSE fgetsLoop(Tail(rest), room - 1, buffer \o Head(rest))

fgets(buffer, size, stream) ==
  LET r == fgetsLoop(stream.rest, size - 1, "")
  IN [buffer |-> IF r.read THEN r.buffer ELSE buffer,
      stream |-> [rest |-> r.rest, eof |-> stream.eof \/ r.eof]]

\* buffer[strlen(buffer) - 1] = '\0'; with an empty buffer the write lands
\* before the array
StripLast(buffer) ==
  IF buffer = "" THEN "" ELSE SubSeq(buffer, 1, Len(buffer) - 1)

(***************************************************************************)
(* The disk.  A file that exists has its text; records and blank are       *)
(* history: the movies the text was written from, and whether a newline    *)
(* follows the last record.                                                *)
(***************************************************************************)
\* the names the user types at a file name prompt
SavedName == "saved.txt"
GivenName == "given.txt"
FileNames == {SavedName, GivenName}

NoFile == [exists |-> FALSE, text |-> "", records |-> <<>>, blank |-> FALSE]

\* three lines per record, a newline between records and none at the end
RECURSIVE FileText(_)
FileText(records) ==
  IF records = <<>> THEN ""
  ELSE Head(records).title \o "\n" \o Head(records).genre \o "\n"
       \o FormatDuration(Head(records).duration)
       \o (IF Len(records) = 1 THEN "" ELSE "\n" \o FileText(Tail(records)))

\* a file written with an editor: the records and a newline after the last
GivenFile(records) ==
  [exists |-> TRUE, text |-> FileText(records) \o "\n", records |-> records,
   blank |-> TRUE]

(***************************************************************************)
(* saveMovieWatchlist                                                      *)
(* Result: the disk, the status, and fault = fclose was called with NULL.  *)
(***************************************************************************)
\* the while loop: one fprintf per movie and a newline before the next
RECURSIVE saveMovieWatchlistLoop(_, _)
saveMovieWatchlistLoop(h, list) ==
  LET record == h[list].title \o "\n" \o h[list].genre \o "\n"
                \o FormatDuration(h[list].duration)
  IN IF h[list].next = NULL THEN record
     ELSE record \o "\n" \o saveMovieWatchlistLoop(h, h[list].next)

saveMovieWatchlist(h, list, dsk, fileName, opened) ==
  IF list = NULL THEN [disk |-> dsk, status |-> EINVAL, fault |-> TRUE]
  ELSE IF ~opened THEN [disk |-> dsk, status |-> ENOENT, fault |-> TRUE]
  ELSE [disk |-> [dsk EXCEPT ![fileName] =
                    [exists |-> TRUE, text |-> saveMovieWatchlistLoop(h, list),
                     records |-> MovieSeq(h, list), blank |-> FALSE]],
        status |-> 0, fault |-> FALSE]

(***************************************************************************)
(* loadMovieWatchlist                                                      *)
(* L is the frame: heap, allocated, library, watchlist, the stream, the    *)
(* three buffers, created = movies built so far, status, and fault = a     *)
(* buffer of length 0 was stripped or fclose was called with NULL.  The    *)
(* createMovieNode numbered fail finds no memory.                          *)
(***************************************************************************)
RECURSIVE loadMovieWatchlistLoop(_, _)
loadMovieWatchlistLoop(L, fail) ==
  IF L.input.eof THEN L
  ELSE
    LET t == fgets(L.title, MaxStrLen + 1, L.input)
        g == fgets(L.genre, MaxStrLen + 1, t.stream)
        l == fgets(L.line, LineSize, g.stream)
        title == StripLast(t.buffer)
        genre == StripLast(g.buffer)
        c == createMovieNode(L.heap, L.allocated, title, genre, strtod(l.buffer),
                             L.created + 1 # fail)
        L1 == [L EXCEPT !.input = l.stream, !.title = title, !.genre = genre,
                        !.line = l.buffer, !.heap = c.heap,
                        !.allocated = c.allocated,
                        !.fault = L.fault \/ t.buffer = "" \/ g.buffer = ""]
    IN IF c.movie = NULL
       THEN [L1 EXCEPT !.status = c.errno]
       ELSE LET a == appendMovie(c.heap, L.watchlist, c.movie)
                temp == searchByTitle(a.heap, L.library, title)
                r == removeMovie(a.heap, L.library, temp)
            IN loadMovieWatchlistLoop(
                 [L1 EXCEPT !.heap = IF temp # NULL THEN r.heap ELSE a.heap,
                            !.library = IF temp # NULL THEN r.list ELSE L.library,
                            !.watchlist = a.list,
                            !.created = L.created + 1], fail)

\* a load that leaves the library's head where it was
loadMovieWatchlistKeepsHead(h, alloc, lib, dsk, fileName, fail) ==
  LET L == [heap |-> h, allocated |-> alloc, library |-> lib, watchlist |-> NULL,
            input |-> [rest |-> dsk[fileName].text, eof |-> FALSE],
            title |-> "", genre |-> "", line |-> "", created |-> 0,
            status |-> 0, fault |-> FALSE]
  IN IF ~dsk[fileName].exists
     THEN [L EXCEPT !.status = ENOENT, !.fault = TRUE]
     ELSE [loadMovieWatchlistLoop(L, fail) EXCEPT !.library = lib]

loadMovieWatchlist(h, alloc, lib, dsk, fileName, fail) ==
  LET L == [heap |-> h, allocated |-> alloc, library |-> lib, watchlist |-> NULL,
            input |-> [rest |-> dsk[fileName].text, eof |-> FALSE],
            title |-> "", genre |-> "", line |-> "", created |-> 0,
            status |-> 0, fault |-> FALSE]
  IN IF ~dsk[fileName].exists
     THEN [L EXCEPT !.status = ENOENT, !.fault = TRUE]
     ELSE loadMovieWatchlistLoop(L, fail)

(***************************************************************************)
(* promptForInt: the loop leaves only with an integer in minValue..maxValue *)
(***************************************************************************)
\* what the user may type at an integer prompt
Inputs == 0..MaxNodes

promptForInt(minValue, maxValue) ==
  {integer \in Inputs : ~(integer < minValue \/ integer > maxValue)}

(***************************************************************************)
(* History: the last handler or list operation that ran, with the          *)
(* sequences it started from.                                              *)
(***************************************************************************)
NoOp ==
  [op |-> "none", title |-> "", option |-> 0, position |-> 0, found |-> FALSE,
   movie |-> NULL, newMovie |-> NULL, status |-> 0, fault |-> FALSE, result |-> 0,
   preLib |-> <<>>, preWl |-> <<>>]

Pre(op) ==
  [NoOp EXCEPT !.op = op,
               !.preLib = MovieSeq(heap, library),
               !.preWl = MovieSeq(heap, watchlist)]

\* where the program is after a call that did or did not read through NULL:
\* killed, or carrying on with the zero it read
AfterCall(fault, ub) == IF fault /\ ub = "crash" THEN "crashed" ELSE pc

(***************************************************************************)
(* Spec: initial state = main after loadMovieLibrary returned a non-empty  *)
(* library; the file's records are appended in file order.                 *)
(***************************************************************************)
\* the library file given on the command line is a prefix of this one
LibraryFile ==
  << [title |-> "Alien", genre |-> "Sci-Fi",    duration |-> 150],
     [title |-> "Up",    genre |-> "Animation", duration |-> 160],
     [title |-> "Alien", genre |-> "Horror",    duration |-> 90] >>

\* the heap after the records of f were appended to an empty list, one node each
Loaded(f) ==
  [n \in Nodes |->
     IF n <= Len(f)
     THEN [title |-> f[n].title, genre |-> f[n].genre, duration |-> f[n].duration,
           next |-> IF n < Len(f) THEN n + 1 ELSE NULL]
     ELSE ZeroMovie]

\* the records of the watchlist file found on the disk at start
GivenRecords == << [title |-> "Up", genre |-> "Animation", duration |-> 160] >>

\* which createMovieNode of a load finds no memory: none, the first, the second
Fails == 0..2

Init ==
  \E n \in 1..Len(LibraryFile) :
    /\ heap = Loaded(SubSeq(LibraryFile, 1, n))
    /\ allocated = 1..n
    /\ library = 1
    /\ watchlist = NULL
    /\ pending = NULL
    /\ pc = "menu"
    /\ last = NoOp
    /\ loaded = SubSeq(LibraryFile, 1, n)
    /\ enomem = FALSE
    /\ calls = 0
    /\ disk = [name \in FileNames |-> NoFile]

(***************************************************************************)
(* handleAddMovie / handleAddMovieMenuOption (Library -> Watchlist)        *)
(***************************************************************************)
\* mutant of handleAddMovieMenuOption: InsertWithin passes the 1-based position
\* on to insertMovie as it was typed
handleAddMovieMenuOptionOffByOne(h, option, position, movie, newMovie) ==
  LET ins == IF option = AddToEnd
             THEN appendMovie(h, watchlist, newMovie) @@ [fault |-> FALSE]
             ELSE insertMovie(h, watchlist, newMovie,
                              IF option = AddToBeginning THEN 0 ELSE position)
      rem == removeMovie(ins.heap, library, movie)
  IN [heap |-> rem.heap, watchlist |-> ins.list, library |-> rem.list,
      status |-> ins.status, fault |-> ins.fault \/ rem.fault]

\* the three cases of the switch, after createMovieNode returned newMovie in h;
\* the node removeMovie returns is dropped by the caller
handleAddMovieMenuOption(h, option, position, movie, newMovie) ==
  LET ins == IF option = AddToEnd
             THEN appendMovie(h, watchlist, newMovie) @@ [fault |-> FALSE]
             ELSE insertMovie(h, watchlist, newMovie,
                              IF option = AddToBeginning THEN 0 ELSE position - 1)
      rem == removeMovie(ins.heap, library, movie)
  IN [heap |-> rem.heap, watchlist |-> ins.list, library |-> rem.list,
      status |-> ins.status, fault |-> ins.fault \/ rem.fault]

AddMovie(title, option, ok) ==
  /\ pc = "menu"
  /\ UNCHANGED <<calls, disk>>
  /\ LET movie == searchByTitle(heap, library, title) IN
     IF movie = NULL
     THEN /\ last' = [Pre("add") EXCEPT !.title = title, !.option = option]
          /\ UNCHANGED <<heap, allocated, library, watchlist, pending, pc, enomem>>
     ELSE LET c == createMovieNode(heap, allocated, heap[movie].title,
                                   heap[movie].genre, heap[movie].duration, ok)
              accepted == IF option = InsertWithin
                          THEN promptForInt(1, getCount(c.heap, watchlist))
                          ELSE {0}
          IN IF accepted = {}
             THEN \* promptForInt(1, 0) never returns
                  /\ heap' = c.heap
                  /\ allocated' = c.allocated
                  /\ pending' = c.movie
                  /\ pc' = "promptForInt"
                  /\ last' = [Pre("add") EXCEPT !.title = title, !.option = option,
                                !.found = TRUE, !.movie = movie, !.newMovie = c.movie,
                                !.status = -1]
                  /\ enomem' = (enomem \/ c.movie = NULL)
                  /\ UNCHANGED <<library, watchlist>>
             ELSE \E position \in accepted :
                  LET r == handleAddMovieMenuOption(c.heap, option, position,
                                                    movie, c.movie)
                  IN \E ub \in Outcomes(r.fault) :
                     /\ heap' = r.heap
                     /\ allocated' = c.allocated
                     /\ library' = r.library
                     /\ watchlist' = r.watchlist
                     /\ pc' = AfterCall(r.fault, ub)
                     /\ last' = [Pre("add") EXCEPT !.title = title, !.option = option,
                                   !.position = position, !.found = TRUE,
                                   !.movie = movie, !.newMovie = c.movie,
                                   !.status = r.status, !.fault = r.fault]
                     /\ enomem' = (enomem \/ c.movie = NULL)
                     /\ UNCHANGED pending
  /\ UNCHANGED loaded

\* the position prompt with an empty watchlist: every input is refused
PromptForIntReject(integer) ==
  /\ pc = "promptForInt"
  /\ UNCHANGED <<calls, disk>>
  /\ integer \notin promptForInt(1, getCount(heap, watchlist))
  /\ last' = [Pre("reject") EXCEPT !.status = -1]
  /\ UNCHANGED <<heap, allocated, library, watchlist, pending, pc, loaded, enomem>>

(***************************************************************************)
(* handleWatchlistMenuOption: MoveMovieUp                                  *)
(***************************************************************************)
\* the while (true) loop: itr->next is the node to move up; fault = it read
\* itr->next->title with itr->next = NULL
RECURSIVE MoveMovieUpLoop(_, _, _, _)
MoveMovieUpLoop(h, list, itr, title) ==
  LET target == h[itr].next IN
  IF target = NULL
  THEN [heap |-> h, list |-> list, fault |-> TRUE]
  ELSE IF h[target].title = title
  THEN LET temp == h[target].next
           h1 == [h EXCEPT ![target].next = itr]
       IN [heap |-> [h1 EXCEPT ![itr].next = temp],
           list |-> IF itr = list THEN target ELSE list,
           fault |-> FALSE]
  ELSE MoveMovieUpLoop(h, list, target, title)

MoveMovieUp(title) ==
  /\ pc = "menu"
  /\ UNCHANGED <<calls, disk>>
  /\ LET found == searchByTitle(heap, watchlist, title) # NULL
         r == IF found /\ heap[watchlist].title # title
              THEN MoveMovieUpLoop(heap, watchlist, watchlist, title)
              ELSE [heap |-> heap, list |-> watchlist, fault |-> FALSE]
     IN \E ub \in Outcomes(r.fault) :
        /\ heap' = r.heap
        /\ watchlist' = r.list
        /\ pc' = IF ~r.fault THEN pc ELSE IF ub = "crash" THEN "crashed" ELSE "hung"
        /\ last' = [Pre("up") EXCEPT !.title = title, !.found = found,
                                      !.fault = r.fault]
  /\ UNCHANGED <<allocated, library, pending, loaded, enomem>>

(***************************************************************************)
(* handleWatchlistMenuOption: MoveMovieDown                                *)
(***************************************************************************)
\* mutant of MoveMovieDownLoop: the title is compared before the loop condition
\* is, as in while (true), so a match at the tail reads through its null link
RECURSIVE MoveMovieDownLoopNoGuard(_, _, _, _)
MoveMovieDownLoopNoGuard(h, list, itr, title) ==
  IF h[itr].title = title
  THEN LET succ == h[itr].next IN
       IF succ = NULL
       THEN [heap |-> h, list |-> list, fault |-> TRUE]
       ELSE LET temp == h[succ].next
                h1 == [h EXCEPT ![succ].next = itr]
            IN [heap |-> [h1 EXCEPT ![itr].next = temp],
                list |-> IF itr = list THEN succ ELSE list,
                fault |-> FALSE]
  ELSE IF h[itr].next = NULL
  THEN [heap |-> h, list |-> list, fault |-> FALSE]
  ELSE MoveMovieDownLoopNoGuard(h, list, h[itr].next, title)

\* the while (itr->next != NULL) loop: itr is the node to move down
RECURSIVE MoveMovieDownLoop(_, _, _, _)
MoveMovieDownLoop(h, list, itr, title) ==
  IF h[itr].next = NULL
  THEN [heap |-> h, list |-> list, fault |-> FALSE]
  ELSE IF h[itr].title = title
  THEN LET succ == h[itr].next
           temp == h[succ].next
           h1 == [h EXCEPT ![succ].next = itr]
       IN [heap |-> [h1 EXCEPT ![itr].next = temp],
           list |-> IF itr = list THEN succ ELSE list,
           fault |-> FALSE]
  ELSE MoveMovieDownLoop(h, list, h[itr].next, title)

MoveMovieDown(title) ==
  /\ pc = "menu"
  /\ UNCHANGED <<calls, disk>>
  /\ LET found == searchByTitle(heap, watchlist, title) # NULL
         r == IF found
              THEN MoveMovieDownLoop(heap, watchlist, watchlist, title)
              ELSE [heap |-> heap, list |-> watchlist, fault |-> FALSE]
     IN /\ heap' = r.heap
        /\ watchlist' = r.list
        /\ last' = [Pre("down") EXCEPT !.title = title, !.found = found,
                                        !.fault = r.fault]
  /\ UNCHANGED <<allocated, library, pending, pc, loaded, enomem>>

(***************************************************************************)
(* handleWatchlistMenuOption: RemoveMovie (Watchlist -> Library)           *)
(***************************************************************************)
RemoveMovie(title, ok) ==
  /\ pc = "menu"
  /\ UNCHANGED <<calls, disk>>
  /\ LET temp == searchByTitle(heap, watchlist, title) IN
     IF temp = NULL
     THEN /\ last' = [Pre("remove") EXCEPT !.title = title]
          /\ UNCHANGED <<heap, allocated, library, watchlist, pc, enomem>>
     ELSE LET c == createMovieNode(heap, allocated, heap[temp].title,
                                   heap[temp].genre, heap[temp].duration, ok)
              rem == removeMovie(c.heap, watchlist, temp)
              app == appendMovie(rem.heap, library, c.movie)
          IN \E ub \in Outcomes(rem.fault) :
             /\ heap' = app.heap
             /\ allocated' = c.allocated
             /\ watchlist' = rem.list
             /\ library' = app.list
             /\ pc' = AfterCall(rem.fault, ub)
             /\ last' = [Pre("remove") EXCEPT !.title = title, !.found = TRUE,
                           !.movie = temp, !.newMovie = c.movie,
                           !.status = app.status, !.fault = rem.fault]
             /\ enomem' = (enomem \/ c.movie = NULL)
  /\ UNCHANGED <<pending, loaded>>

(***************************************************************************)
(* handleWatchlistMenuOption: ShowDuration                                 *)
(***************************************************************************)
ShowDuration ==
  /\ pc = "menu"
  /\ UNCHANGED <<calls, disk>>
  /\ last' = [Pre("duration") EXCEPT !.result = computeDuration(heap, watchlist)]
  /\ UNCHANGED <<heap, allocated, library, watchlist, pending, pc, loaded, enomem>>

(***************************************************************************)
(* handleWatchlistMenuOption: PrintWatchlist, SearchWatchlist              *)
(***************************************************************************)
PrintWatchlist ==
  /\ pc = "menu"
  /\ last' = Pre("print")
  /\ UNCHANGED <<heap, allocated, library, watchlist, pending, pc, loaded, enomem,
                 calls, disk>>

SearchWatchlist(title) ==
  /\ pc = "menu"
  /\ LET movie == searchByTitle(heap, watchlist, title)
     IN last' = [Pre("search") EXCEPT !.title = title, !.movie = movie,
                                       !.found = (movie # NULL)]
  /\ UNCHANGED <<heap, allocated, library, watchlist, pending, pc, loaded, enomem,
                 calls, disk>>

(***************************************************************************)
(* handleWatchlistMenuOption: SaveWatchlist, LoadWatchlist                 *)
(***************************************************************************)
\* opened = fopen(fileName, "w") returned a stream
SaveWatchlist(fileName, opened) ==
  /\ pc = "menu"
  /\ calls < MaxCalls
  /\ calls' = calls + 1
  /\ LET r == saveMovieWatchlist(heap, watchlist, disk, fileName, opened)
     IN \E ub \in Outcomes(r.fault) :
        /\ disk' = r.disk
        /\ pc' = AfterCall(r.fault, ub)
        /\ last' = [Pre("save") EXCEPT !.title = fileName, !.status = r.status,
                                     !.fault = r.fault]
  /\ UNCHANGED <<heap, allocated, library, watchlist, pending, loaded, enomem>>

\* *watchlist = loadMovieWatchlist(library)
LoadWatchlist(fileName, fail) ==
  /\ pc = "menu"
  /\ calls < MaxCalls
  /\ calls' = calls + 1
  /\ LET r == loadMovieWatchlist(heap, allocated, library, disk, fileName, fail)
     IN \E ub \in Outcomes(r.fault) :
        /\ heap' = r.heap
        /\ allocated' = r.allocated
        /\ library' = r.library
        /\ watchlist' = r.watchlist
        /\ pc' = AfterCall(r.fault, ub)
        /\ enomem' = (enomem \/ r.status = ENOMEM)
        /\ last' = [Pre("load") EXCEPT !.title = fileName, !.status = r.status,
                                     !.fault = r.fault, !.result = r.created]
  /\ UNCHANGED <<pending, loaded, disk>>

Next ==
  \/ \E title \in Titles, option \in {AddToBeginning, AddToEnd, InsertWithin},
        ok \in BOOLEAN : AddMovie(title, option, ok)
  \/ \E integer \in Inputs : PromptForIntReject(integer)
  \/ \E title \in Titles : MoveMovieUp(title)
  \/ \E title \in Titles : MoveMovieDown(title)
  \/ \E title \in Titles, ok \in BOOLEAN : RemoveMovie(title, ok)
  \/ ShowDuration

Spec == Init /\ [][Next]_vars

(***************************************************************************)
(* SpecMenu: the handlers that change the lists, LoadWatchlist included,   *)
(* started with the full library file and the watchlist file on the disk;  *)
(* calls counts the loads.                                                 *)
(***************************************************************************)
InitMenu ==
  /\ heap = Loaded(LibraryFile)
  /\ allocated = 1..Len(LibraryFile)
  /\ library = 1
  /\ watchlist = NULL
  /\ pending = NULL
  /\ pc = "menu"
  /\ last = NoOp
  /\ loaded = LibraryFile
  /\ enomem = FALSE
  /\ calls = 0
  /\ disk = [name \in FileNames |->
              IF name = GivenName THEN GivenFile(GivenRecords) ELSE NoFile]

\* the titles typed at the prompts: one that is twice in the library, one
\* that is once in it and in the watchlist file
MenuTitles == {"Alien", "Up"}

\* createMovieNode finds no memory only when the heap is used up
NextMenu ==
  \/ \E title \in MenuTitles, option \in {AddToBeginning, AddToEnd, InsertWithin} :
        AddMovie(title, option, TRUE)
  \/ \E integer \in Inputs : PromptForIntReject(integer)
  \/ \E title \in MenuTitles : MoveMovieUp(title)
  \/ \E title \in MenuTitles : MoveMovieDown(title)
  \/ \E title \in MenuTitles : RemoveMovie(title, TRUE)
  \/ \E fail \in Fails : LoadWatchlist(GivenName, fail)

SpecMenu == InitMenu /\ [][NextMenu]_vars

(***************************************************************************)
(* SpecFile: the handlers of the watchlist menu that read the lists or the *)
(* files, applied to a watchlist of up to MaxLen movies and a library;     *)
(* calls counts the saves and loads.                                       *)
(***************************************************************************)
\* movies with titles of 34 and of 33 characters, and one whose title without
\* its last character is a title of the library
FileCatalog ==
  << [title |-> "Up", genre |-> "Animation", duration |-> 160],
     [title |-> "Everything Everywhere All at Once", genre |-> "Sci-Fi",
      duration |-> 139],
     [title |-> "Aliens", genre |-> "Action", duration |-> 137],
     [title |-> "Birdman or The Virtue of Ignorance", genre |-> "Comedy",
      duration |-> 119] >>

FileTitles == {FileCatalog[i].title : i \in 1..Len(FileCatalog)}

\* the movies of seq whose index is in S, in the order of seq
RECURSIVE Pick(_, _)
Pick(seq, S) ==
  IF seq = <<>> THEN <<>>
  ELSE LET front == Pick(SubSeq(seq, 1, Len(seq) - 1), S)
       IN IF Len(seq) \in S THEN Append(front, seq[Len(seq)]) ELSE front

\* the watchlists: up to MaxLen movies of the catalog
Watchlists ==
  {Pick(FileCatalog, S) : S \in {T \in SUBSET (1..Len(FileCatalog)) :
                                  Cardinality(T) <= MaxLen}}

\* the libraries: what is left of the library file after transfers
Libraries == {SubSeq(LibraryFile, n, Len(LibraryFile)) : n \in 2..(Len(LibraryFile) + 1)}

\* the watchlist files found on the disk at start
GivenChoices == {Pick(FileCatalog, {1, 3})}

InitFile ==
  \E wl \in Watchlists, lib \in Libraries, given \in GivenChoices :
    /\ Len(wl) + Len(lib) <= MaxNodes
    /\ heap = [n \in Nodes |->
                IF n = Len(lib) THEN [Loaded(lib \o wl)[n] EXCEPT !.next = NULL]
                ELSE Loaded(lib \o wl)[n]]
    /\ allocated = 1..(Len(lib) + Len(wl))
    /\ library = IF lib = <<>> THEN NULL ELSE 1
    /\ watchlist = IF wl = <<>> THEN NULL ELSE Len(lib) + 1
    /\ pending = NULL
    /\ pc = "menu"
    /\ last = NoOp
    /\ loaded = lib \o wl
    /\ enomem = FALSE
    /\ calls = 0
    /\ disk = [name \in FileNames |->
                IF name = GivenName THEN GivenFile(given) ELSE NoFile]

\* a run is at most one handler that reads or reorders the watchlist, then
\* saves and loads
NextFile ==
  \/ last = NoOp /\ PrintWatchlist
  \/ last = NoOp /\ ShowDuration
  \/ last = NoOp /\ \E title \in FileTitles : SearchWatchlist(title)
  \/ last = NoOp /\ \E title \in FileTitles : MoveMovieUp(title)
  \/ last = NoOp /\ \E title \in FileTitles : MoveMovieDown(title)
  \/ \E opened \in BOOLEAN : SaveWatchlist(SavedName, opened)
  \/ \E fileName \in FileNames, fail \in Fails : LoadWatchlist(fileName, fail)

SpecFile == InitFile /\ [][NextFile]_vars

(***************************************************************************)
(* Sequence vocabulary of the properties.                                  *)
(***************************************************************************)
\* 1-based index of the first element of seq with the title, 0 if none
FirstIndex(seq, title) ==
  IF \E i \in 1..Len(seq) : seq[i].title = title
  THEN CHOOSE i \in 1..Len(seq) :
         seq[i].title = title /\ \A j \in 1..(i - 1) : seq[j].title # title
  ELSE 0

\* seq without its i-th element
RemoveAt(seq, i) == SubSeq(seq, 1, i - 1) \o SubSeq(seq, i + 1, Len(seq))

\* seq with x as its new i-th element
InsertAt(seq, i, x) == SubSeq(seq, 1, i - 1) \o <<x>> \o SubSeq(seq, i, Len(seq))

\* seq with its i-th and j-th elements exchanged
Swap(seq, i, j) == [seq EXCEPT ![i] = seq[j], ![j] = seq[i]]

\* how many times x occurs in seq
Occurrences(seq, x) == Cardinality({i \in 1..Len(seq) : seq[i] = x})

\* the two sequences hold the same movies the same number of times
SameMultiset(s1, s2) ==
  \A x \in {s1[i] : i \in 1..Len(s1)} \cup {s2[i] : i \in 1..Len(s2)} :
    Occurrences(s1, x) = Occurrences(s2, x)

RECURSIVE SumDurations(_)
SumDurations(seq) ==
  IF seq = <<>> THEN 0 ELSE Head(seq).duration + SumDurations(Tail(seq))

Library == MovieSeq(heap, library)
Watchlist == MovieSeq(heap, watchlist)

\* the last handler was a transfer that found its movie in the source
TransferRan == last.op \in {"add", "remove"} /\ last.found /\ last.status # -1

(***************************************************************************)
(* Properties of the program (Spec).                                       *)
(***************************************************************************)

\* C1: a transfer (either direction, any mode) whose copy could not be created
\* or inserted leaves the source and the destination exactly as they were.
C1_TransferAtomicOnFailure ==
  (TransferRan /\ (last.newMovie = NULL \/ last.status # 0))
    => (Library = last.preLib /\ Watchlist = last.preWl)

\* C2: as long as no allocation has failed, the movies of Library and Watchlist
\* together are exactly the movies the library was loaded with, each once.
C2_EveryMovieInExactlyOneList ==
  ~enomem => SameMultiset(Library \o Watchlist, loaded)

\* C3: move-up of a title first found at index i > 0 exchanges the elements at
\* i-1 and i; move-down of a title first found at index i < Count-1 exchanges
\* the elements at i and i+1; nothing else moves.
C3_MoveIsAdjacentSwap ==
  LET i == FirstIndex(last.preWl, last.title) IN
  /\ (last.op = "up" /\ i > 1) => Watchlist = Swap(last.preWl, i - 1, i)
  /\ (last.op = "down" /\ i >= 1 /\ i < Len(last.preWl))
       => Watchlist = Swap(last.preWl, i, i + 1)

\* C7: a transfer that succeeded took the first movie with the title out of
\* the source, the rest keeping their order, and put an equal movie into the
\* destination: first for add-to-beginning, last for add-to-end, at index
\* position-1 for insert-at-position, last for Watchlist -> Library.
C7_TransferPlacesMovie ==
  (TransferRan /\ last.newMovie # NULL /\ last.status = 0) =>
    IF last.op = "add"
    THEN LET i == FirstIndex(last.preLib, last.title)
             at == CASE last.option = AddToBeginning -> 1
                     [] last.option = AddToEnd -> Len(last.preWl) + 1
                     [] OTHER -> last.position
         IN /\ i >= 1
            /\ Library = RemoveAt(last.preLib, i)
            /\ Watchlist = InsertAt(last.preWl, at, last.preLib[i])
    ELSE LET i == FirstIndex(last.preWl, last.title)
         IN /\ i >= 1
            /\ Watchlist = RemoveAt(last.preWl, i)
            /\ Library = last.preLib \o <<last.preWl[i]>>

\* a successful insert-at-position between the two movies of a watchlist
C7_Witness ==
  /\ TransferRan /\ last.newMovie # NULL /\ last.status = 0
  /\ last.op = "add" /\ last.option = InsertWithin /\ last.position = 2
  /\ Len(last.preWl) = 2
  /\ Len(Watchlist) = 3

\* a successful Watchlist -> Library transfer of the second of two movies
\* into a library that was not empty
C7_WitnessRemove ==
  /\ TransferRan /\ last.newMovie # NULL /\ last.status = 0
  /\ last.op = "remove" /\ Len(last.preWl) = 2 /\ Len(last.preLib) >= 1
  /\ FirstIndex(last.preWl, last.title) = 2

\* C8: move-up of a title first found at the head, and move-down of a title
\* found only at the tail, leave the watchlist as it was and read through no
\* null link.
C8_MoveAtBoundaryIsNoOp ==
  LET i == FirstIndex(last.preWl, last.title) IN
  ((last.op = "up" /\ i = 1) \/ (last.op = "down" /\ i >= 1 /\ i = Len(last.preWl)))
    => (Watchlist = last.preWl /\ ~last.fault /\ pc = "menu")

\* move-up at the head of a list of two or more
C8_WitnessUp ==
  /\ last.op = "up"
  /\ Len(last.preWl) >= 2
  /\ FirstIndex(last.preWl, last.title) = 1

\* move-down at the tail of a list of three
C8_Witness ==
  /\ last.op = "down"
  /\ Len(last.preWl) = 3
  /\ FirstIndex(last.preWl, last.title) = 3

\* C9: a move up or down of a title in the watchlist leaves the total duration
\* what it was: the sum of the durations of the elements before the move.
C9_DurationInvariantUnderMove ==
  (last.op \in {"up", "down"} /\ last.found)
    => computeDuration(heap, watchlist) = SumDurations(last.preWl)

(***************************************************************************)
(* SpecList: the list operations on their own. The list is any sequence of *)
(* up to MaxLen distinct catalog movies, held in watchlist; pending is the *)
(* detached node a caller holds (created, or returned by removeMovie).     *)
(***************************************************************************)
\* sequences of distinct catalog movies of length lo..hi
Files(lo, hi) ==
  {f \in UNION {[1..n -> Catalog] : n \in lo..hi} :
     \A i, j \in 1..Len(f) : i # j => f[i] # f[j]}

\* the positions a caller may pass to insertMovie
Positions == -1..(MaxLen + 2)

InitList ==
  \E f \in Files(0, MaxLen) :
    /\ heap = Loaded(f)
    /\ allocated = 1..Len(f)
    /\ library = NULL
    /\ watchlist = IF Len(f) = 0 THEN NULL ELSE 1
    /\ pending = NULL
    /\ pc = "list"
    /\ last = NoOp
    /\ loaded = f
    /\ enomem = FALSE
    /\ calls = 0
    /\ disk = [name \in FileNames |-> NoFile]

\* 0-based index of node n in the list, -1 if it is not an element
IndexOf(h, list, n) ==
  LET ns == ListNodes(h, list) IN
  IF \E i \in 1..Len(ns) : ns[i] = n
  THEN (CHOOSE i \in 1..Len(ns) : ns[i] = n) - 1
  ELSE -1

\* a caller creates a movie and holds it
ListCreate(m, ok) ==
  /\ pc = "list"
  /\ calls < MaxCalls
  /\ calls' = calls + 1
  /\ UNCHANGED disk
  /\ pending = NULL
  /\ LET c == createMovieNode(heap, allocated, m.title, m.genre, m.duration, ok)
     IN /\ heap' = c.heap
        /\ allocated' = c.allocated
        /\ pending' = c.movie
        /\ enomem' = (enomem \/ c.movie = NULL)
        /\ last' = [Pre("create") EXCEPT !.title = m.title, !.newMovie = c.movie,
                                          !.status = c.errno]
  /\ UNCHANGED <<library, watchlist, pc, loaded>>

\* insertMovie(&list, pending, position)
ListInsert(position) ==
  /\ pc = "list"
  /\ calls < MaxCalls
  /\ calls' = calls + 1
  /\ UNCHANGED disk
  /\ LET r == insertMovie(heap, watchlist, pending, position)
     IN \E ub \in Outcomes(r.fault) :
        /\ heap' = r.heap
        /\ watchlist' = r.list
        /\ pending' = IF r.status = 0 THEN NULL ELSE pending
        /\ pc' = AfterCall(r.fault, ub)
        /\ last' = [Pre("insert") EXCEPT
                      !.title = IF pending = NULL THEN "" ELSE heap[pending].title,
                      !.position = position, !.movie = pending,
                      !.status = r.status, !.fault = r.fault]
  /\ UNCHANGED <<allocated, library, loaded, enomem>>

\* appendMovie(&list, pending)
ListAppend ==
  /\ pc = "list"
  /\ calls < MaxCalls
  /\ calls' = calls + 1
  /\ UNCHANGED disk
  /\ LET r == appendMovie(heap, watchlist, pending)
     IN /\ heap' = r.heap
        /\ watchlist' = r.list
        /\ pending' = IF r.status = 0 THEN NULL ELSE pending
        /\ last' = [Pre("append") EXCEPT
                      !.title = IF pending = NULL THEN "" ELSE heap[pending].title,
                      !.movie = pending, !.status = r.status]
  /\ UNCHANGED <<allocated, library, pc, loaded, enomem>>

\* removeMovie(&list, movie): movie is an element of the list, or the node the
\* caller holds (no element of the list), or NULL
ListRemove(movie) ==
  /\ pc = "list"
  /\ calls < MaxCalls
  /\ calls' = calls + 1
  /\ UNCHANGED disk
  /\ \/ movie = NULL
     \/ movie # NULL /\ movie = pending
     \/ pending = NULL /\ IndexOf(heap, watchlist, movie) >= 0
  /\ LET r == removeMovie(heap, watchlist, movie)
     IN \E ub \in Outcomes(r.fault) :
        /\ heap' = r.heap
        /\ watchlist' = r.list
        /\ pending' = IF r.removed # NULL THEN r.removed ELSE pending
        /\ pc' = AfterCall(r.fault, ub)
        /\ last' = [Pre("remove") EXCEPT
                      !.title = IF movie = NULL THEN "" ELSE heap[movie].title,
                      !.position = IndexOf(heap, watchlist, movie),
                      !.movie = movie, !.found = (r.removed # NULL),
                      !.status = r.status, !.fault = r.fault]
  /\ UNCHANGED <<allocated, library, loaded, enomem>>

\* deleteMovie(&list, movie): movie as for removeMovie; a deleted node is freed
ListDelete(movie) ==
  /\ pc = "list"
  /\ calls < MaxCalls
  /\ calls' = calls + 1
  /\ UNCHANGED disk
  /\ \/ movie = NULL
     \/ movie # NULL /\ movie = pending
     \/ pending = NULL /\ IndexOf(heap, watchlist, movie) >= 0
  /\ LET r == deleteMovie(heap, watchlist, movie)
     IN \E ub \in Outcomes(r.fault) :
        /\ heap' = r.heap
        /\ watchlist' = r.list
        /\ allocated' = allocated \ {r.freed}
        /\ pc' = AfterCall(r.fault, ub)
        /\ last' = [Pre("delete") EXCEPT
                      !.title = IF movie = NULL THEN "" ELSE heap[movie].title,
                      !.position = IndexOf(heap, watchlist, movie),
                      !.movie = movie, !.found = (r.freed # NULL),
                      !.status = r.status, !.fault = r.fault]
  /\ UNCHANGED <<library, pending, loaded, enomem>>

\* searchByTitle(list, title)
ListSearch(title) ==
  /\ pc = "list"
  /\ calls < MaxCalls
  /\ calls' = calls + 1
  /\ UNCHANGED disk
  /\ LET movie == searchByTitle(heap, watchlist, title)
     IN last' = [Pre("search") EXCEPT !.title = title, !.movie = movie,
                                       !.found = (movie # NULL)]
  /\ UNCHANGED <<heap, allocated, library, watchlist, pending, pc, loaded, enomem>>

\* getNodePosition(list, title)
ListPosition(title) ==
  /\ pc = "list"
  /\ calls < MaxCalls
  /\ calls' = calls + 1
  /\ UNCHANGED disk
  /\ last' = [Pre("position") EXCEPT
                !.title = title,
                !.result = getNodePosition(heap, watchlist, title)]
  /\ UNCHANGED <<heap, allocated, library, watchlist, pending, pc, loaded, enomem>>

NextList ==
  \/ \E m \in Catalog, ok \in BOOLEAN : ListCreate(m, ok)
  \/ \E position \in Positions : ListInsert(position)
  \/ ListAppend
  \/ \E movie \in Nodes \cup {NULL} : ListRemove(movie)
  \/ \E movie \in Nodes \cup {NULL} : ListDelete(movie)
  \/ \E title \in Titles : ListSearch(title)
  \/ \E title \in Titles : ListPosition(title)

SpecList == InitList /\ [][NextList]_vars

(***************************************************************************)
(* Properties of the list operations (SpecList).                           *)
(***************************************************************************)

\* C4: inserting a movie whose title is not in the list at any position from
\* 0 to Count succeeds, getNodePosition of its title is then that position,
\* and getCount is one more than before.
C4_InsertThenPositionOf ==
  (/\ last.op = "insert" /\ last.movie # NULL
   /\ FirstIndex(last.preWl, last.title) = 0
   /\ last.position \in 0..Len(last.preWl))
    => /\ last.status = 0
       /\ getNodePosition(heap, watchlist, last.title) = last.position
       /\ getCount(heap, watchlist) = Len(last.preWl) + 1

\* C5: for any list and any movie held, appendMovie and insertMovie at
\* position getCount return the same status and leave the same sequence.
C5_AppendIsInsertAtCount ==
  (pc = "list" /\ pending # NULL) =>
    LET a == appendMovie(heap, watchlist, pending)
        i == insertMovie(heap, watchlist, pending, getCount(heap, watchlist))
    IN /\ a.status = i.status
       /\ MovieSeq(a.heap, a.list) = MovieSeq(i.heap, i.list)

\* C6: after removeMovie took the element at index i out of a list, insertMovie
\* of the returned node at position i succeeds and the list is what it was.
C6_RemoveInsertRoundTrip ==
  (last.op = "remove" /\ last.found /\ pc = "list") =>
    LET i == insertMovie(heap, watchlist, pending, last.position)
    IN /\ i.status = 0
       /\ MovieSeq(i.heap, i.list) = last.preWl

\* C10: insertMovie of a movie at a position below 0 or above Count returns
\* ERANGE, leaves the list as it was, and reads through no null link.
C10_InsertOutOfRange ==
  (/\ last.op = "insert" /\ last.movie # NULL
   /\ (last.position < 0 \/ last.position > Len(last.preWl)))
    => /\ last.status = ERANGE
       /\ Watchlist = last.preWl
       /\ ~last.fault
       /\ pc = "list"


\* C11: removeMovie or deleteMovie, given a node that is set but is no element
\* of a non-empty list of any length, fails, hands back no node, leaves the
\* list as it was, and follows no null link.
C11_RemoveForeignNodeFails ==
  (/\ last.op \in {"remove", "delete"}
   /\ last.movie # NULL
   /\ last.preWl # <<>>
   /\ last.position = -1)
  => /\ ~last.fault
     /\ pc = "list"
     /\ last.status # 0
     /\ ~last.found
     /\ Watchlist = last.preWl

\* C12: getNodePosition returns the zero-based index of the first movie with
\* the given title, and -1 when no movie has it or the list is empty.
C12_PositionOfIsFirstIndex ==
  last.op = "position" => last.result = FirstIndex(last.preWl, last.title) - 1

\* C13: a successful removeMovie hands back the removed node detached (its
\* next link is NULL) and the list is the original without that element.
C13_RemoveDetaches ==
  (last.op = "remove" /\ last.found)
  => /\ pending = last.movie
     /\ heap[last.movie].next = NULL
     /\ Watchlist = RemoveAt(last.preWl, last.position + 1)

\* C19: searchByTitle returns the first movie in list order whose title
\* equals the given title, NULL when none has it or the list is empty, and
\* leaves the list as it was.
C19_SearchReturnsFirstMatch ==
  last.op = "search"
  => /\ Watchlist = last.preWl
     /\ LET i == FirstIndex(last.preWl, last.title)
        IN last.movie = IF i = 0 THEN NULL ELSE ListNodes(heap, watchlist)[i]

\* a search for a title held by two movies, the first of them not at the head
C19_Witness ==
  /\ last.op = "search"
  /\ FirstIndex(last.preWl, last.title) = 2
  /\ Cardinality({i \in 1..Len(last.preWl) : last.preWl[i].title = last.title}) = 2
  /\ last.movie = ListNodes(heap, watchlist)[2]

\* a search of the empty list
C19_WitnessEmpty ==
  last.op = "search" /\ last.preWl = <<>> /\ last.movie = NULL

\* C20: a successful insertMovie at position p leaves the list as its first p
\* elements, then the inserted movie, then the remaining elements in order.
C20_InsertAtPosition ==
  (last.op = "insert" /\ last.movie # NULL /\ last.status = 0)
  => /\ pending = NULL
     /\ Watchlist = InsertAt(last.preWl, last.position + 1,
                             MovieData(heap, last.movie))

\* an insertion strictly inside a list of three
C20_Witness ==
  /\ last.op = "insert"
  /\ last.status = 0
  /\ last.position = 1
  /\ Len(last.preWl) = 3
  /\ Len(Watchlist) = 4


(***************************************************************************)
(* Properties of the file handlers (SpecFile, SpecMenu).                   *)
(***************************************************************************)
\* lib after, for each movie of seq in order, its first movie of that title
\* was removed
RECURSIVE RemoveTitles(_, _)
RemoveTitles(lib, seq) ==
  IF seq = <<>> THEN lib
  ELSE LET i == FirstIndex(lib, Head(seq).title)
       IN RemoveTitles(IF i = 0 THEN lib ELSE RemoveAt(lib, i), Tail(seq))

\* the nodes of a list as a set
NodeSet(h, list) == {ListNodes(h, list)[i] : i \in 1..Len(ListNodes(h, list))}

\* the last handler loaded the file of that name and every createMovieNode
\* found memory
LoadedFrom(fileName) ==
  /\ last.op = "load"
  /\ last.title = fileName
  /\ disk[fileName].exists
  /\ last.status = 0

\* C14: loading the file that saveMovieWatchlist wrote from a non-empty
\* watchlist (titles and genres of at most 34 characters) gives a watchlist of
\* the same movies in the same order: the same titles, genres and durations.
C14_SaveLoadRoundTrip ==
  LoadedFrom(SavedName)
  => /\ ~last.fault
     /\ Watchlist = disk[SavedName].records

\* the same round trip for watchlists whose titles and genres all leave room
\* for the newline in the buffers of the load
RoundTripBelowBufferSize ==
  (/\ LoadedFrom(SavedName)
   /\ \A i \in 1..Len(disk[SavedName].records) :
        /\ Len(disk[SavedName].records[i].title) < MaxStrLen
        /\ Len(disk[SavedName].records[i].genre) < MaxStrLen)
  => /\ ~last.fault
     /\ Watchlist = disk[SavedName].records

\* C15: loading a file of n three-line records followed by a newline gives
\* exactly the n movies of the records in file order, and takes out of the
\* library only the first movie of each record's title.
C15_LoadToleratesTrailingNewline ==
  (LoadedFrom(GivenName) /\ disk[GivenName].blank)
  => /\ ~last.fault
     /\ Watchlist = disk[GivenName].records
     /\ Library = RemoveTitles(last.preLib, disk[GivenName].records)

\* C16: in every state both lists are chains that end in NULL without a
\* cycle, and no node is on both.
C16_ListsAcyclicAndDisjoint ==
  /\ Acyclic(heap, library)
  /\ Acyclic(heap, watchlist)
  /\ NodeSet(heap, library) \cap NodeSet(heap, watchlist) = {}

\* a load into a non-empty watchlist, after which both lists hold movies
C16_Witness ==
  /\ last.op = "load"
  /\ last.preWl # <<>>
  /\ last.result >= 2
  /\ Library # <<>>
  /\ Len(Watchlist) = 2

\* C17 as stated: print, show duration, search, move up, move down, save and
\* load watchlist all leave the library as it was.
C17_OnlyTransferChangesLibrary ==
  last.op \in {"print", "duration", "search", "up", "down", "save", "load"}
  => Library = last.preLib

\* C17 amended: print, show duration, search, move up, move down and save
\* leave the library as it was; load watchlist takes out of the library, for
\* each movie it loads in file order, the first movie of that title, and
\* nothing else.
C17_LoadTakesTitlesFromLibrary ==
  /\ last.op \in {"print", "duration", "search", "up", "down", "save"}
     => Library = last.preLib
  /\ last.op = "load" => Library = RemoveTitles(last.preLib, Watchlist)

\* a load that took a movie out of the library
C17_Witness ==
  /\ last.op = "load"
  /\ last.result >= 1
  /\ Len(Library) < Len(last.preLib)

\* C18: a load that fails (the file cannot be opened, or a createMovieNode
\* finds no memory) leaves the watchlist and the library as they were.
C18_FailedLoadChangesNothing ==
  (last.op = "load" /\ last.status # 0)
  => /\ pc = "menu"
     /\ Watchlist = last.preWl
     /\ Library = last.preLib


(***************************************************************************)
(* Properties of the position prompt and of node ownership.                *)
(***************************************************************************)
\* C21: a transfer to the watchlist at a position always completes: the
\* prompt returns, it accepts every insertion position from 0 to the count of
\* the watchlist (typed 1-based), and the copy is then in the watchlist at the
\* position accepted.
C21_InsertWithinCompletes ==
  (last.op = "add" /\ last.option = InsertWithin /\ last.found)
  => /\ pc # "promptForInt"
     /\ \A p \in 0..Len(last.preWl) :
          p + 1 \in promptForInt(1, Len(last.preWl))
     /\ last.newMovie # NULL
        => /\ Len(Watchlist) = Len(last.preWl) + 1
           /\ Watchlist[last.position] = MovieData(heap, last.newMovie)

\* C22: after every completed handler, every node that was allocated and not
\* freed is on the library or on the watchlist.
C22_NoNodeIsLost ==
  (pc = "menu" /\ last.op \in {"add", "remove", "up", "down", "load"})
  => allocated \subseteq (NodeSet(heap, library) \cup NodeSet(heap, watchlist))

====
